---- MODULE Spec2Model ----
(***************************************************************************)
(* Model of src/main.py (MinecraftServerGUI): the server process           *)
(* supervisor (run_server, _run_server_process, stop_server,               *)
(* restart_server, send_command), the relay of the child's output, the     *)
(* plugin search (search_plugins, _search_plugins_thread), the plugin      *)
(* installer (_install_plugin_thread) and the installed-plugins tab        *)
(* (refresh_installed_plugins, delete_plugin).                             *)
(*                                                                         *)
(* The Tk main loop is one thread: a handler runs to completion unless it  *)
(* is written here as several steps, which is done where another thread    *)
(* can observably interleave (after Thread.start() in run_server, and      *)
(* while stop_server blocks in Popen.wait(timeout=30)).  Callbacks queued  *)
(* with root.after(0, ...) run on the main loop in the order queued.       *)
(***************************************************************************)
EXTENDS Integers, Sequences, FiniteSets, TLC

\* ------------------------------------------------------------------ bounds
\* Accepted run_server calls (each starts one thread and at most one child).
MaxRuns == 2
\* restart_server calls that get past their running check.
MaxRestarts == 1
\* Length of the text typed in the command entry.
MaxLen == 3
\* Entries in a version list the catalog returns.
MaxVersions == 2
\* search_plugins calls that start a thread.
MaxSearches == 2
\* Hits in one search response.
MaxHits == 2
\* Refresh callbacks the installer may have queued at a time.
MaxQueued == 1
\* Lines a child writes to its output.
MaxLines == 2

Runs == 1..MaxRuns
None == 0

\* ------------------------------------------------------------------- state
VARIABLES
    server_running,   \* self.server_running
    server_process,   \* self.server_process: None or the child spawned by a run
    server_thread,    \* self.server_thread: None or the thread of a run
    statusRunning,    \* what update_server_status last showed (button states)
    main,             \* where the Tk main thread is: [pc, proc, restart]
    tpc,              \* per run: where its _run_server_process thread is
    proc,             \* per run: its child: none, alive, dying or exited
    nextRun,          \* id of the next thread run_server will start
    afterQueue,       \* root.after(0, ...) callbacks not yet run
    waiters,          \* wait_and_restart threads that have not yet returned
    timers,           \* pending root.after(2000, self.run_server) callbacks
    restarts,         \* restart_server calls accepted so far
    origin,           \* per run: "button" or "restart" (who called run_server)
    lastOp,           \* what the last handler on the main thread reported
    inst,             \* the _install_plugin_thread task: its locals and reports
    plugins_tree,     \* self.plugins_tree: the row ids of the results tree
    plugins_data,     \* self.plugins_data: project id -> stored hit
    search,           \* per search: where its _search_plugins_thread is
    nextSearch,       \* id of the next thread search_plugins will start
    searchOp,         \* what search_plugins / install_plugin last reported
    returned,         \* the hits the catalog returned for the latest search
    plugins_folder,   \* the directory self.plugins_dir names: its entries
    installed_plugins_listbox,  \* self.installed_plugins_listbox: its rows
    dirOp,            \* what delete_plugin / refresh last reported
    stdout,           \* per run: lines the child wrote that are not yet read
    emitted,          \* per run: how many lines the child has written
    console           \* self.console_text: the lines inserted, in order

supVars == <<server_running, server_process, server_thread, statusRunning,
             main, tpc, proc, nextRun, afterQueue, waiters, timers, restarts,
             origin, lastOp>>

instVars == <<inst>>

searchVars == <<plugins_tree, plugins_data, search, nextSearch, searchOp,
                returned>>

dirVars == <<plugins_folder, installed_plugins_listbox, dirOp>>

relayVars == <<stdout, emitted, console>>

\* What the supervisor's handlers never touch.
elsewhere == <<instVars, searchVars, dirVars, relayVars>>

vars == <<supVars, elsewhere>>

\* ------------------------------------------------------------------- paths
\* A path is a sequence of components; it is absolute when it starts at "/".
isabs(p) == Len(p) > 0 /\ p[1] = "/"

\* os.path.join(a, b) for the two cases run_server can meet.
join(a, b) == IF isabs(b) THEN b ELSE a \o b

\* The files that exist on disk.
ExistingPaths == { <<"/", "srv", "server.jar">> }

exists(p) == p \in ExistingPaths

JarChoices == { <<"server.jar">>, <<"/", "srv", "server.jar">>,
                <<"/", "srv", "missing.jar">> }
DirChoices == { <<"/", "srv">>, <<"/", "empty">> }

jar_path_cwd(server_jar, server_dir) ==
    IF ~isabs(server_jar) THEN join(<<"/", "srv">>, server_jar) ELSE server_jar

\* jar_path of run_server (lines 365-367): a relative server_jar is joined to
\* server_dir.
jar_path(server_jar, server_dir) ==
    IF ~isabs(server_jar) THEN join(server_dir, server_jar) ELSE server_jar

\* ------------------------------------------------------------------- texts
Chars == {"a", " "}
Whitespace == {" ", "\n"}

RECURSIVE SeqsUpTo(_)
SeqsUpTo(n) == IF n = 0 THEN { <<>> }
               ELSE LET S == SeqsUpTo(n - 1)
                    IN  S \cup { Append(s, c) : s \in S, c \in Chars }

Texts == SeqsUpTo(MaxLen)

RECURSIVE lstrip(_)
lstrip(s) == IF s # <<>> /\ Head(s) \in Whitespace THEN lstrip(Tail(s)) ELSE s

RECURSIVE rstrip(_)
rstrip(s) == IF s # <<>> /\ s[Len(s)] \in Whitespace
             THEN rstrip(SubSeq(s, 1, Len(s) - 1)) ELSE s

strip_left(s) == lstrip(s)

\* str.strip()
strip(s) == rstrip(lstrip(s))

NoWrite == <<>>
StopLine == <<"s", "t", "o", "p", "\n">>

Idle == [pc |-> "idle", proc |-> None, restart |-> FALSE]

SupInit ==
    /\ server_running = FALSE
    /\ server_process = None
    /\ server_thread = None
    /\ statusRunning = FALSE
    /\ main = Idle
    /\ tpc = [r \in Runs |-> "none"]
    /\ proc = [r \in Runs |-> "none"]
    /\ nextRun = 1
    /\ afterQueue = <<>>
    /\ waiters = 0
    /\ timers = 0
    /\ restarts = 0
    /\ origin = [r \in Runs |-> "none"]
    /\ lastOp = [op |-> "init", report |-> "ok", written |-> NoWrite]

Op(o, rep, w) == [op |-> o, report |-> rep, written |-> w]

\* A child that has been spawned and has not exited ("dying": it received
\* SIGTERM and is shutting down).
Alive(p) == proc[p] \in {"alive", "dying"}

\* Popen.stdin.write + flush: the line arrives while the child lives;
\* otherwise the write raises (BrokenPipeError).
CanWrite(p) == Alive(p)

\* The check without its server_running half.
not_running_process_only == server_process = None

\* Lines 429 and 469: `not self.server_running or not self.server_process`.
not_running == ~server_running \/ server_process = None

\* --------------------------------------------------------------- run_server
\* Lines 361-391: the running check, the jar check, Thread(...).start().
\* `from` is "button" (the Run button) or "restart" (the 2000 ms timer).
\* server_jar and server_dir are what the configuration tab's entries, which
\* are bound to these variables, hold at the call.
run_server_body(from, server_jar, server_dir) ==
    /\ main.pc = "idle"
    /\ IF server_running
       THEN /\ lastOp' = Op("run_server", "AlreadyRunning", NoWrite)
            /\ UNCHANGED <<server_running, server_process, server_thread,
                           statusRunning, main, tpc, proc, nextRun, origin>>
       ELSE IF ~exists(jar_path(server_jar, server_dir))
       THEN /\ lastOp' = Op("run_server", "NotFound", NoWrite)
            /\ UNCHANGED <<server_running, server_process, server_thread,
                           statusRunning, main, tpc, proc, nextRun, origin>>
       ELSE /\ nextRun <= MaxRuns
            /\ server_thread' = nextRun
            /\ tpc' = [tpc EXCEPT ![nextRun] = "spawn"]
            /\ origin' = [origin EXCEPT ![nextRun] = from]
            /\ nextRun' = nextRun + 1
            /\ main' = [pc |-> "run_started", proc |-> None, restart |-> FALSE]
            /\ lastOp' = Op("run_server", "ok", NoWrite)
            /\ UNCHANGED <<server_running, server_process, statusRunning,
                           proc>>
    /\ UNCHANGED <<afterQueue, waiters, restarts, elsewhere>>

\* The Run button (enabled while the status shows Stopped).
run_server ==
    /\ ~statusRunning
    /\ \E j \in JarChoices, d \in DirChoices : run_server_body("button", j, d)
    /\ UNCHANGED timers

\* root.after(2000, self.run_server) firing: restart_server's start step.
run_server_timer ==
    /\ timers > 0
    /\ timers' = timers - 1
    /\ \E j \in JarChoices, d \in DirChoices : run_server_body("restart", j, d)

\* Lines 394-395, after the thread has been started.
run_server_tail ==
    /\ main.pc = "run_started"
    /\ server_running' = TRUE
    /\ statusRunning' = TRUE
    /\ main' = Idle
    /\ UNCHANGED <<server_process, server_thread, tpc, proc, nextRun,
                   afterQueue, waiters, timers, restarts, origin, lastOp,
                   elsewhere>>

\* ------------------------------------------------------ _run_server_process
\* Lines 399-409: subprocess.Popen either returns a handle or raises.
spawn(r) ==
    /\ tpc[r] = "spawn"
    /\ \E ok \in BOOLEAN :
         IF ok
         THEN /\ server_process' = r
              /\ proc' = [proc EXCEPT ![r] = "alive"]
              /\ tpc' = [tpc EXCEPT ![r] = "read"]
         ELSE /\ tpc' = [tpc EXCEPT ![r] = "finally"]
              /\ UNCHANGED <<server_process, proc>>
    /\ UNCHANGED <<server_running, server_thread, statusRunning, main,
                   nextRun, afterQueue, waiters, timers, restarts, origin,
                   lastOp, elsewhere>>

\* Lines 412-415: readline returns '' once the child has closed its output.
read_eof(r) ==
    /\ tpc[r] = "read"
    /\ proc[r] = "exited"
    /\ stdout[r] = <<>>
    /\ tpc' = [tpc EXCEPT ![r] = "wait"]
    /\ UNCHANGED <<server_running, server_process, server_thread,
                   statusRunning, main, proc, nextRun, afterQueue, waiters,
                   timers, restarts, origin, lastOp, elsewhere>>

\* Lines 413-415 raising (a line that does not decode, log_to_console
\* failing): control goes to the except clause, line 419.
read_error(r) ==
    /\ tpc[r] = "read"
    /\ tpc' = [tpc EXCEPT ![r] = "finally"]
    /\ UNCHANGED <<server_running, server_process, server_thread,
                   statusRunning, main, proc, nextRun, afterQueue, waiters,
                   timers, restarts, origin, lastOp, elsewhere>>

\* Line 417: self.server_process.wait() returns once that child has exited.
wait_exit(r) ==
    /\ tpc[r] = "wait"
    /\ server_process # None
    /\ proc[server_process] = "exited"
    /\ tpc' = [tpc EXCEPT ![r] = "finally"]
    /\ UNCHANGED <<server_running, server_process, server_thread,
                   statusRunning, main, proc, nextRun, afterQueue, waiters,
                   timers, restarts, origin, lastOp, elsewhere>>

\* Lines 421-425: the finally clause.
finally(r) ==
    /\ tpc[r] = "finally"
    /\ server_running' = FALSE
    /\ afterQueue' = Append(afterQueue, <<"status_stopped", r>>)
    /\ tpc' = [tpc EXCEPT ![r] = "done"]
    /\ UNCHANGED <<server_process, server_thread, statusRunning, main, proc,
                   nextRun, waiters, timers, restarts, origin, lastOp, elsewhere>>

\* -------------------------------------------------------------- stop_server
\* stop_server returning; inside restart_server the wait_and_restart thread is
\* started next (lines 460-465).
stop_return(inRestart, rep, w) ==
    /\ main' = Idle
    /\ lastOp' = Op("stop_server", rep, w)
    /\ waiters' = IF inRestart THEN waiters + 1 ELSE waiters

\* Lines 429-440, up to the blocking wait.
stop_server_body(inRestart) ==
    /\ main.pc = "idle"
    /\ IF not_running
       THEN stop_return(inRestart, "NotRunning", NoWrite)
       ELSE IF CanWrite(server_process)
       THEN /\ main' = [pc |-> "stop_wait", proc |-> server_process,
                        restart |-> inRestart]
            /\ lastOp' = Op("stop_server", "waiting",
                            <<server_process, StopLine>>)
            /\ UNCHANGED waiters
       ELSE stop_return(inRestart, "IOFailure", NoWrite)
    /\ UNCHANGED <<server_running, server_process, server_thread,
                   statusRunning, tpc, proc, nextRun, afterQueue, timers,
                   origin, elsewhere>>

\* The Stop button (enabled while the status shows Running).
stop_server ==
    /\ statusRunning
    /\ stop_server_body(FALSE)
    /\ UNCHANGED restarts

\* Line 440 returning: the child waited for has exited within the 30 s.
stop_wait_exit ==
    /\ main.pc = "stop_wait"
    /\ proc[main.proc] = "exited"
    /\ stop_return(main.restart, "ok", lastOp.written)
    /\ UNCHANGED <<server_running, server_process, server_thread,
                   statusRunning, tpc, proc, nextRun, afterQueue, timers,
                   restarts, origin, elsewhere>>

\* Popen.terminate() sends SIGTERM (POSIX): a live child either starts to
\* shut down (honours = TRUE) or carries on; TerminateProcess (Windows) is
\* the first outcome.
terminate(p, honours) ==
    IF proc[p] = "alive" /\ honours THEN [proc EXCEPT ![p] = "dying"] ELSE proc

\* terminate() raising inside the `except subprocess.TimeoutExpired` clause
\* (lines 442-444): the `except Exception` clause of the same try statement
\* does not apply to it, so the exception leaves stop_server; inside
\* restart_server, line 457 raises and lines 460-465 are not reached.
terminate_error(inRestart) ==
    /\ main' = Idle
    /\ lastOp' = Op("stop_server", "Uncaught", lastOp.written)
    /\ UNCHANGED waiters

\* Lines 442-444: TimeoutExpired, then self.server_process.terminate(), which
\* signals the child or raises (OSError).
stop_wait_timeout ==
    /\ main.pc = "stop_wait"
    /\ Alive(main.proc)
    /\ \/ /\ \E honours \in BOOLEAN :
               proc' = terminate(server_process, honours)
          /\ stop_return(main.restart, "Timeout", lastOp.written)
       \/ /\ terminate_error(main.restart)
          /\ UNCHANGED proc
    /\ UNCHANGED <<server_running, server_process, server_thread,
                   statusRunning, tpc, nextRun, afterQueue, timers, restarts,
                   origin, elsewhere>>

\* ----------------------------------------------------------- restart_server
\* Lines 452-457: the running check, then stop_server().
restart_server ==
    /\ statusRunning
    /\ main.pc = "idle"
    /\ IF ~server_running
       THEN /\ lastOp' = Op("restart_server", "NotRunning", NoWrite)
            /\ UNCHANGED <<server_running, server_process, server_thread,
                           statusRunning, main, tpc, proc, nextRun,
                           afterQueue, waiters, timers, restarts, origin,
                           elsewhere>>
       ELSE /\ restarts < MaxRestarts
            /\ restarts' = restarts + 1
            /\ stop_server_body(TRUE)

\* Lines 460-463: join(timeout=35) returns, because the server thread has
\* ended or because 35 s have passed; then the 2000 ms timer is set.
wait_and_restart ==
    /\ waiters > 0
    /\ waiters' = waiters - 1
    /\ timers' = timers + 1
    /\ UNCHANGED <<server_running, server_process, server_thread,
                   statusRunning, main, tpc, proc, nextRun, afterQueue,
                   restarts, origin, lastOp, elsewhere>>

\* ------------------------------------------------------------- send_command
\* Lines 469-484: what send_command reports and writes; `text` is what the
\* command entry holds.
send_result(text) ==
    IF not_running
    THEN Op("send_command", "NotRunning", NoWrite)
    ELSE LET command == strip(text)
         IN  IF command = <<>>
             THEN Op("send_command", "Empty", NoWrite)
             ELSE IF CanWrite(server_process)
             THEN Op("send_command", "ok",
                     <<server_process, command \o <<"\n">>>>)
             ELSE Op("send_command", "IOFailure", NoWrite)

\* The Send button and <Return> in the command entry.
send_command(text) ==
    /\ main.pc = "idle"
    /\ lastOp' = send_result(text)
    /\ UNCHANGED <<server_running, server_process, server_thread,
                   statusRunning, main, tpc, proc, nextRun, afterQueue,
                   waiters, timers, restarts, origin, elsewhere>>

\* ------------------------------------------------------ update_server_status
\* The main loop running the callback queued by line 423.
update_server_status ==
    /\ main.pc = "idle"
    /\ afterQueue # <<>>
    /\ Head(afterQueue)[1] = "status_stopped"
    /\ afterQueue' = Tail(afterQueue)
    /\ statusRunning' = FALSE
    /\ UNCHANGED <<server_running, server_process, server_thread, main, tpc,
                   proc, nextRun, waiters, timers, restarts, origin, lastOp,
                   elsewhere>>

\* ---------------------------------------------------------------- the child
\* The child exits on its own (the stop line, a crash, its own decision).
child_exit(p) ==
    /\ proc[p] = "alive"
    /\ proc' = [proc EXCEPT ![p] = "exited"]
    /\ UNCHANGED <<server_running, server_process, server_thread,
                   statusRunning, main, tpc, nextRun, afterQueue, waiters,
                   timers, restarts, origin, lastOp, elsewhere>>

\* A child that is shutting down after SIGTERM exits.
child_sigterm(p) ==
    /\ proc[p] = "dying"
    /\ proc' = [proc EXCEPT ![p] = "exited"]
    /\ UNCHANGED <<server_running, server_process, server_thread,
                   statusRunning, main, tpc, nextRun, afterQueue, waiters,
                   timers, restarts, origin, lastOp, elsewhere>>

\* ---------------------------------------------------------- output relay
RelayInit ==
    /\ stdout = [r \in Runs |-> <<>>]
    /\ emitted = [r \in Runs |-> 0]
    /\ console = <<>>

\* The child writes its next line to its output pipe.
child_write(p) ==
    /\ Alive(p)
    /\ emitted[p] < MaxLines
    /\ emitted' = [emitted EXCEPT ![p] = @ + 1]
    /\ stdout' = [stdout EXCEPT ![p] = Append(@, emitted[p] + 1)]
    /\ UNCHANGED <<supVars, instVars, searchVars, dirVars, console>>

\* Lines 412-415 and 505-506: readline returns a line; log_to_console, on the
\* reader thread, queues its insertion for the main loop.
read_line(r) ==
    /\ tpc[r] = "read"
    /\ stdout[r] # <<>>
    /\ stdout' = [stdout EXCEPT ![r] = Tail(@)]
    /\ afterQueue' = Append(afterQueue, <<"line", r, Head(stdout[r])>>)
    /\ UNCHANGED <<server_running, server_process, server_thread,
                   statusRunning, main, tpc, proc, nextRun, waiters, timers,
                   restarts, origin, lastOp, instVars, searchVars, dirVars,
                   emitted, console>>

\* The main loop running _log (lines 501-503) for a queued line.
log_to_console ==
    /\ main.pc = "idle"
    /\ afterQueue # <<>>
    /\ Head(afterQueue)[1] = "line"
    /\ afterQueue' = Tail(afterQueue)
    /\ console' = Append(console, <<Head(afterQueue)[2], Head(afterQueue)[3]>>)
    /\ UNCHANGED <<server_running, server_process, server_thread,
                   statusRunning, main, tpc, proc, nextRun, waiters, timers,
                   restarts, origin, lastOp, instVars, searchVars, dirVars,
                   stdout, emitted>>

\* ======================================================= the plugins folder
\* A directory entry's name: Path.stem and Path.suffix.
Name(stem, suffix) == [stem |-> stem, suffix |-> suffix]

\* The names in ascending order, as sorted() compares the paths.
NameOrder == << Name("f", ".jar"), Name("g", ".jar"), Name("notes", ".txt") >>

FileNames == { NameOrder[i] : i \in 1..Len(NameOrder) }

Rank(name) == CHOOSE i \in 1..Len(NameOrder) : NameOrder[i] = name

\* The listbox row shown instead of an empty list (lines 645, 652).
Placeholder == Name("No plugins installed", "")

\* The directory: absent, or its entries and what each holds.
Folder(present, files) == [exists |-> present, files |-> files]

NoFiles == [x \in {} |-> ""]

Folders ==
    { Folder(FALSE, NoFiles) }
    \cup { Folder(TRUE, [n \in S |-> "old"]) : S \in SUBSET FileNames }

\* A folder holding one plugin installed earlier.
FolderInit ==
    /\ plugins_folder = Folder(TRUE, [n \in {Name("g", ".jar")} |-> "old"])
    /\ installed_plugins_listbox = <<>>
    /\ dirOp = [op |-> "init", report |-> "ok"]

glob_all(folder) == DOMAIN folder.files

\* Line 649: plugins_path.glob("*.jar").
glob(folder) == { n \in DOMAIN folder.files : n.suffix = ".jar" }

\* sorted(jar_files)
sorted(S) ==
    CHOOSE q \in [1..Cardinality(S) -> S] :
        \A i, j \in 1..Cardinality(S) : i < j => Rank(q[i]) < Rank(q[j])

\* Lines 637-659: what refresh_installed_plugins leaves in the folder and in
\* the listbox.
refreshed_folder(folder) == Folder(TRUE, folder.files)

refreshed_listbox(folder) ==
    IF ~folder.exists \/ glob(folder) = {}
    THEN << Placeholder >>
    ELSE sorted(glob(folder))

\* The Refresh button.
refresh_installed_plugins ==
    /\ main.pc = "idle"
    /\ plugins_folder' = refreshed_folder(plugins_folder)
    /\ installed_plugins_listbox' = refreshed_listbox(plugins_folder)
    /\ dirOp' = [op |-> "refresh_installed_plugins", report |-> "ok"]
    /\ UNCHANGED <<supVars, instVars, searchVars, relayVars>>

unlink_any(folder, name) == TRUE

\* Path.unlink(): succeeds on an entry that is there.
unlink_ok(folder, name) == folder.exists /\ name \in DOMAIN folder.files

\* Lines 661-690: the Delete button on row i of the listbox, and the answer
\* to the confirmation dialog.
delete_plugin(i, response) ==
    /\ main.pc = "idle"
    /\ i \in 1..Len(installed_plugins_listbox)
    /\ LET plugin_name == installed_plugins_listbox[i]
       IN  IF plugin_name = Placeholder
           THEN /\ dirOp' = [op |-> "delete_plugin", report |-> "Placeholder"]
                /\ UNCHANGED <<plugins_folder, installed_plugins_listbox>>
           ELSE IF ~response
           THEN /\ dirOp' = [op |-> "delete_plugin", report |-> "Cancelled"]
                /\ UNCHANGED <<plugins_folder, installed_plugins_listbox>>
           ELSE IF unlink_ok(plugins_folder, plugin_name)
           THEN LET left == Folder(TRUE,
                                [n \in DOMAIN plugins_folder.files
                                        \ {plugin_name}
                                   |-> plugins_folder.files[n]])
                IN  /\ plugins_folder' = refreshed_folder(left)
                    /\ installed_plugins_listbox' = refreshed_listbox(left)
                    /\ dirOp' = [op |-> "delete_plugin", report |-> "Deleted"]
           ELSE /\ dirOp' = [op |-> "delete_plugin",
                             report |-> "FileNotFoundError"]
                /\ UNCHANGED <<plugins_folder, installed_plugins_listbox>>
    /\ UNCHANGED <<supVars, instVars, searchVars, relayVars>>

\* Another program (a file manager, the server itself) changes the folder.
folder_changes ==
    /\ \E folder \in Folders : plugins_folder' = folder
    /\ plugins_folder' # plugins_folder
    /\ UNCHANGED <<supVars, instVars, searchVars, relayVars,
                   installed_plugins_listbox, dirOp>>

FolderNext ==
    \/ refresh_installed_plugins
    \/ \E i \in 1..Len(NameOrder), response \in BOOLEAN :
         delete_plugin(i, response)
    \/ folder_changes

\* =============================================================== installer
\* What the catalog can return for one version entry (the JSON keys the code
\* reads).
GameVersionSets == { {}, {"1.21.4"}, {"1.20.1"} }
LoaderSets == { {}, {"paper"}, {"fabric"} }
File(stem) == [url |-> <<"http://x/", stem>>,
               filename |-> [stem |-> stem, suffix |-> ".jar"]]
FileLists == { <<>>, << File("g"), File("f") >> }
Entries == [game_versions : GameVersionSets, loaders : LoaderSets,
            files : FileLists]

RECURSIVE ListsUpTo(_)
ListsUpTo(n) == IF n = 0 THEN { <<>> }
                ELSE LET S == ListsUpTo(n - 1)
                     IN  S \cup { Append(l, e) : l \in S, e \in Entries }

VersionLists == ListsUpTo(MaxVersions)

\* self.server_version.get() and self.server_type.get().lower()
ServerVersions == {"", "1.21.4"}
ServerTypes == {"", "paper"}

NoInstall == [pc |-> "none", server_version |-> "", server_type |-> "",
              versions |-> <<>>, best |-> 0, exact |-> FALSE,
              requests |-> <<>>, report |-> "none"]

InstInit == inst = NoInstall

\* Line 800.
version_matches(version, server_version) ==
    server_version = "" \/ server_version \in version.game_versions

\* Line 801 (computed, and not read by line 803).
loader_matches(version, server_type) ==
    \/ server_type = ""
    \/ server_type \in version.loaders
    \/ version.loaders = {}

\* Lines 794-805: the index of the first entry the loop breaks at, 0 (None)
\* when it runs to the end.
best_version(versions, server_version, server_type) ==
    LET hits == { i \in 1..Len(versions) :
                    version_matches(versions[i], server_version) }
    IN  IF hits = {} THEN 0
        ELSE CHOOSE i \in hits : \A k \in hits : i <= k

needs_refetch_any(versions, server_version) == versions = <<>>

\* Line 783: `if not versions and server_version`.
needs_refetch(versions, server_version) ==
    versions = <<>> /\ server_version # ""

\* A request the task has issued: its kind, its parameter (the game_versions
\* filter, "" for none, or the file's URL), whether it succeeded, and how many
\* entries came back.
Request(kind, param, ok, count) ==
    [kind |-> kind, param |-> param, ok |-> ok, count |-> count]

\* Lines 620-635 and 762-767: install_plugin starts the task for the selected
\* row; the task reads the configured version and type.
install_plugin ==
    /\ inst.pc \in {"none", "done"}
    /\ Len(afterQueue) < MaxQueued
    /\ \E sv \in ServerVersions, st \in ServerTypes :
         inst' = [NoInstall EXCEPT !.pc = "fetch", !.server_version = sv,
                                   !.server_type = st]
    /\ UNCHANGED <<supVars, searchVars, dirVars, relayVars>>

\* Lines 770-780: the version-list request, filtered by game version when
\* one is configured; it fails or returns a list.
install_fetch ==
    /\ inst.pc = "fetch"
    /\ \/ inst' = [inst EXCEPT
                     !.requests = Append(@, Request("versions",
                                                    inst.server_version,
                                                    FALSE, 0)),
                     !.report = "NetworkError",
                     !.pc = "done"]
       \/ \E got \in VersionLists :
            inst' = [inst EXCEPT
                     !.requests = Append(@, Request("versions",
                                                    inst.server_version,
                                                    TRUE, Len(got))),
                     !.versions = got,
                     !.pc = IF needs_refetch(got, inst.server_version)
                            THEN "refetch" ELSE "resolve"]
    /\ UNCHANGED <<supVars, searchVars, dirVars, relayVars>>

\* Lines 783-787: the second request, without the filter.
install_refetch ==
    /\ inst.pc = "refetch"
    /\ \/ inst' = [inst EXCEPT
                     !.requests = Append(@, Request("versions", "", FALSE, 0)),
                     !.report = "NetworkError",
                     !.pc = "done"]
       \/ \E got \in VersionLists :
            inst' = [inst EXCEPT
                     !.requests = Append(@, Request("versions", "", TRUE,
                                                    Len(got))),
                     !.versions = got,
                     !.pc = "resolve"]
    /\ UNCHANGED <<supVars, searchVars, dirVars, relayVars>>

\* Lines 789-820: no versions; else the selection, its report (exact: "Found
\* compatible version", otherwise "Using latest version"), and the file list.
install_resolve ==
    /\ inst.pc = "resolve"
    /\ IF inst.versions = <<>>
       THEN inst' = [inst EXCEPT !.report = "NoVersionsAvailable", !.pc = "done"]
       ELSE LET found == best_version(inst.versions, inst.server_version,
                                      inst.server_type)
                best  == IF found = 0 THEN 1 ELSE found
            IN  inst' = [inst EXCEPT
                         !.best = best,
                         !.exact = (found # 0),
                         !.report = IF inst.versions[best].files = <<>>
                                    THEN "NoDownloadableFile" ELSE @,
                         !.pc = IF inst.versions[best].files = <<>>
                                THEN "done" ELSE "download"]
    /\ UNCHANGED <<supVars, searchVars, dirVars, relayVars>>

last_file(files) == files[Len(files)]

\* Line 823: `file_data = files[0]`.
first_file(files) == files[1]

\* Lines 822-846: the folder is created if absent, the first file of the
\* selected version is requested, and on success its body is written under
\* the file's name and a refresh of the installed list is queued.
install_download ==
    /\ inst.pc = "download"
    /\ LET file_data == first_file(inst.versions[inst.best].files)
       IN  \E ok \in BOOLEAN :
             /\ inst' = [inst EXCEPT
                    !.requests = Append(@, Request("download", file_data.url,
                                                   ok, 0)),
                    !.report = IF ok THEN "Installed" ELSE "NetworkError",
                    !.pc = "done"]
             /\ plugins_folder' =
                    IF ok
                    THEN Folder(TRUE, (file_data.filename :> "new")
                                          @@ plugins_folder.files)
                    ELSE Folder(TRUE, plugins_folder.files)
             /\ afterQueue' = IF ok THEN Append(afterQueue, <<"refresh">>)
                              ELSE afterQueue
    /\ UNCHANGED <<server_running, server_process, server_thread,
                   statusRunning, main, tpc, proc, nextRun, waiters, timers,
                   restarts, origin, lastOp, searchVars, relayVars,
                   installed_plugins_listbox, dirOp>>

\* The main loop running the refresh queued by line 846.
refresh_callback ==
    /\ main.pc = "idle"
    /\ afterQueue # <<>>
    /\ Head(afterQueue)[1] = "refresh"
    /\ afterQueue' = Tail(afterQueue)
    /\ plugins_folder' = refreshed_folder(plugins_folder)
    /\ installed_plugins_listbox' = refreshed_listbox(plugins_folder)
    /\ dirOp' = [op |-> "refresh_installed_plugins", report |-> "ok"]
    /\ UNCHANGED <<server_running, server_process, server_thread,
                   statusRunning, main, tpc, proc, nextRun, waiters, timers,
                   restarts, origin, lastOp, instVars, searchVars, relayVars>>

InstNext ==
    \/ install_plugin
    \/ install_fetch
    \/ install_refetch
    \/ install_resolve
    \/ install_download
    \/ refresh_callback

\* ================================================================== search
\* What the catalog can return for one hit (the JSON keys the code reads that
\* reach plugins_data or the row id).
ProjectIds == {"p1", "p2"}
Hits == [project_id : ProjectIds, game_versions : GameVersionSets]

\* A response lists a project once.
RECURSIVE HitLists(_)
HitLists(n) ==
    IF n = 0 THEN { <<>> }
    ELSE LET S == HitLists(n - 1)
         IN  S \cup { Append(lh[1], lh[2]) :
                      lh \in { x \in S \X Hits :
                                 \A i \in 1..Len(x[1]) :
                                     x[1][i].project_id # x[2].project_id } }

Responses == HitLists(MaxHits)

Searches == 1..MaxSearches

\* self.search_entry.get()
QueryTexts == { t \in Texts : Len(t) <= 1 }

NoSearch == [pc |-> "none", query |-> <<>>, server_version |-> "",
             hits |-> <<>>, i |-> 0, report |-> "none"]

NoData == [x \in {} |-> TRUE]

SearchInit ==
    /\ plugins_tree = <<>>
    /\ plugins_data = NoData
    /\ search = [k \in Searches |-> NoSearch]
    /\ nextSearch = 1
    /\ searchOp = [op |-> "init", report |-> "ok"]
    /\ returned = <<>>

\* A thread that has returned keeps nothing but its outcome.
Finished(report) == [NoSearch EXCEPT !.pc = "done", !.report = report]

is_compatible_when_listed(server_version, game_versions) ==
    server_version = "" \/ server_version \in game_versions

\* Line 586: `not server_version or server_version in game_versions or not
\* game_versions`.
is_compatible(server_version, game_versions) ==
    \/ server_version = ""
    \/ server_version \in game_versions
    \/ game_versions = {}

\* Lines 589-596: the dict stored under the project id.
StoredHit(hit, server_version) ==
    [project_id |-> hit.project_id,
     compatible |-> is_compatible(server_version, hit.game_versions),
     game_versions |-> hit.game_versions]

query_accepted_always(query) == TRUE

\* Lines 513-514: `if not query`.
query_accepted(query) == query # <<>>

\* Lines 510-524: the Search button.
search_plugins(text) ==
    /\ main.pc = "idle"
    /\ LET query == strip(text)
       IN  IF ~query_accepted(query)
           THEN /\ searchOp' = [op |-> "search_plugins",
                                report |-> "EmptyQuery"]
                /\ UNCHANGED <<plugins_tree, plugins_data, search,
                               nextSearch, returned>>
           ELSE /\ nextSearch <= MaxSearches
                /\ plugins_tree' = <<>>
                /\ plugins_data' = NoData
                /\ search' = [search EXCEPT ![nextSearch] =
                                 [NoSearch EXCEPT !.pc = "request",
                                                  !.query = query]]
                /\ nextSearch' = nextSearch + 1
                /\ returned' = <<>>
                /\ searchOp' = [op |-> "search_plugins", report |-> "ok"]
    /\ UNCHANGED <<supVars, instVars, dirVars, relayVars>>

\* Lines 528-575: the thread reads the configured version, sends the search
\* request and gets an error, no hits, or hits.
search_request(k) ==
    /\ search[k].pc = "request"
    /\ \E sv \in ServerVersions :
         \/ /\ search' = [search EXCEPT ![k] = Finished("NetworkError")]
            /\ UNCHANGED returned
         \/ \E hits \in Responses :
              /\ search' = [search EXCEPT ![k] =
                   IF hits = <<>> THEN Finished("NoResults")
                   ELSE [search[k] EXCEPT !.server_version = sv,
                                          !.hits = hits,
                                          !.i = 1,
                                          !.report = "ok",
                                          !.pc = "loop"]]
              /\ returned' = IF k = nextSearch - 1 THEN hits ELSE returned
    /\ UNCHANGED <<supVars, instVars, dirVars, relayVars, plugins_tree,
                   plugins_data, nextSearch, searchOp>>

\* Lines 578-609: one pass of the loop: the hit is stored in plugins_data by
\* the thread and the row insert is queued for the main loop.
search_store(k) ==
    /\ search[k].pc = "loop"
    /\ LET hit == search[k].hits[search[k].i]
       IN  /\ plugins_data' =
                 (hit.project_id :> StoredHit(hit, search[k].server_version))
                 @@ plugins_data
           /\ afterQueue' = Append(afterQueue, <<"insert", hit.project_id>>)
    /\ search' = [search EXCEPT ![k] =
                    IF search[k].i = Len(search[k].hits)
                    THEN Finished("ok")
                    ELSE [search[k] EXCEPT !.i = @ + 1]]
    /\ UNCHANGED <<server_running, server_process, server_thread,
                   statusRunning, main, tpc, proc, nextRun, waiters, timers,
                   restarts, origin, lastOp, instVars, dirVars, relayVars,
                   plugins_tree, nextSearch, searchOp, returned>>

InTree(pid) == \E n \in 1..Len(plugins_tree) : plugins_tree[n] = pid

\* The main loop running a row insert queued by line 607:
\* plugins_tree.insert("", END, iid=pid, ...) appends the row, or raises
\* TclError inside the callback when a row with that id exists.
tree_insert ==
    /\ main.pc = "idle"
    /\ afterQueue # <<>>
    /\ Head(afterQueue)[1] = "insert"
    /\ afterQueue' = Tail(afterQueue)
    /\ plugins_tree' = IF InTree(Head(afterQueue)[2]) THEN plugins_tree
                       ELSE Append(plugins_tree, Head(afterQueue)[2])
    /\ UNCHANGED <<server_running, server_process, server_thread,
                   statusRunning, main, tpc, proc, nextRun, waiters, timers,
                   restarts, origin, lastOp, instVars, dirVars, relayVars,
                   plugins_data, search, nextSearch, searchOp, returned>>

\* self.plugins_tree.selection(): nothing, or a row of the tree.
Selections == { <<>> } \cup { << plugins_tree[n] >> : n \in 1..Len(plugins_tree) }

\* Lines 622-632: what install_plugin makes of the selection.
install_lookup(selection) ==
    IF selection = <<>> THEN "NoSelection"
    ELSE IF selection[1] \notin DOMAIN plugins_data THEN "PluginDataNotFound"
    ELSE "ok"

\* Lines 620-635: the Install button with rows on display: the selection is
\* looked up in plugins_data and, when found, the install thread is started
\* (it reads the configured version and type, lines 764-765).
install_selected ==
    /\ main.pc = "idle"
    /\ \E selection \in Selections :
         /\ searchOp' = [op |-> "install_plugin",
                         report |-> install_lookup(selection)]
         /\ IF install_lookup(selection) = "ok"
            THEN /\ inst.pc \in {"none", "done"}
                 /\ \E sv \in ServerVersions, st \in ServerTypes :
                      inst' = [NoInstall EXCEPT !.pc = "fetch",
                                                !.server_version = sv,
                                                !.server_type = st]
            ELSE UNCHANGED inst
    /\ UNCHANGED <<supVars, dirVars, relayVars, plugins_tree, plugins_data,
                   search, nextSearch, returned>>

SearchNext ==
    \/ \E text \in QueryTexts : search_plugins(text)
    \/ \E k \in Searches : search_request(k)
    \/ \E k \in Searches : search_store(k)
    \/ tree_insert
    \/ install_selected

\* ------------------------------------------------------- the specification
Init == SupInit /\ InstInit /\ SearchInit /\ FolderInit /\ RelayInit

\* The command entry left empty, or holding one character.
ShortTexts == { t \in Texts : Len(t) <= 1 }

ThreadStep ==
    \E r \in Runs : spawn(r) \/ read_eof(r) \/ read_error(r) \/ wait_exit(r)
                    \/ finally(r)

MainStep ==
    \/ run_server
    \/ run_server_timer
    \/ run_server_tail
    \/ stop_server
    \/ stop_wait_exit
    \/ stop_wait_timeout
    \/ restart_server
    \/ \E text \in ShortTexts : send_command(text)
    \/ update_server_status

ChildStep ==
    \E p \in Runs : child_exit(p) \/ child_sigterm(p)

SupNext == MainStep \/ ThreadStep \/ ChildStep \/ wait_and_restart

Next == SupNext

Spec == Init /\ [][Next]_vars

\* Threads are scheduled, a blocked or half-done handler continues, queued
\* callbacks and timers fire, and a child that is shutting down exits.  What
\* the user does, and what a child does of its own accord, is not forced.
Fairness ==
    /\ \A r \in Runs :
         WF_vars(spawn(r) \/ read_eof(r) \/ wait_exit(r) \/ finally(r))
    /\ \A p \in Runs : WF_vars(child_sigterm(p))
    /\ WF_vars(run_server_tail)
    /\ WF_vars(stop_wait_exit \/ stop_wait_timeout)
    /\ WF_vars(update_server_status)
    /\ WF_vars(wait_and_restart)
    /\ WF_vars(run_server_timer)

FairSpec == Spec /\ Fairness

\* The installer on its own: the supervisor and the installer share only the
\* callback queue.
InstallerSpec == Init /\ [][InstNext]_vars

\* The search on its own.
SearchSpec == Init /\ [][SearchNext]_vars

\* No search thread is running and no row insert is queued.
SearchIdle ==
    /\ \A k \in Searches : search[k].pc \in {"none", "done"}
    /\ afterQueue = <<>>

\* The search used by someone who waits for the results before searching
\* again.
SearchInTurnNext ==
    \/ SearchIdle /\ \E text \in QueryTexts : search_plugins(text)
    \/ \E k \in Searches : search_request(k)
    \/ \E k \in Searches : search_store(k)
    \/ tree_insert

SearchInTurnSpec == Init /\ [][SearchInTurnNext]_vars

\* The installed-plugins tab on its own, started on any folder.
FolderSpecInit ==
    /\ SupInit /\ InstInit /\ SearchInit /\ RelayInit
    /\ plugins_folder \in Folders
    /\ installed_plugins_listbox = <<>>
    /\ dirOp = [op |-> "init", report |-> "ok"]

FolderSpec == FolderSpecInit /\ [][FolderNext]_vars

\* Runs and the commands typed while they last, without stop and restart.
CommandNext ==
    \/ run_server
    \/ run_server_tail
    \/ ThreadStep
    \/ \E p \in Runs : child_exit(p)
    \/ update_server_status
    \/ \E text \in Texts : send_command(text)

CommandSpec == Init /\ [][CommandNext]_vars

\* Runs and their output, without stop, restart and send.
RelayNext ==
    \/ run_server
    \/ run_server_tail
    \/ ThreadStep
    \/ \E r \in Runs : read_line(r)
    \/ \E p \in Runs : child_write(p)
    \/ \E p \in Runs : child_exit(p)
    \/ update_server_status
    \/ log_to_console

RelaySpec == Init /\ [][RelayNext]_vars

\* ================================================================== claims
LiveChildren == { p \in Runs : Alive(p) }

\* C1: in every reachable state at most one child server process is alive
\* (run_server is rejected while a child of an earlier run is alive), also
\* when a reader task has ended because relaying output raised an error.
C1_AtMostOneChildAlive == Cardinality(LiveChildren) <= 1

\* The resolved executable path as the claim states it: a relative path is
\* joined to the server directory.
Resolved(j, d) == IF Len(j) > 0 /\ j[1] = "/" THEN j ELSE d \o j

Callers == {"button", "restart"}

NothingSpawned ==
    /\ tpc' = tpc
    /\ proc' = proc
    /\ nextRun' = nextRun
    /\ server_thread' = server_thread
    /\ server_process' = server_process
    /\ main' = main

\* C2: for every configuration whose resolved executable path does not
\* exist, run_server called on a Stopped supervisor (server_running false)
\* reports NotFound, spawns no task and no process and leaves server_running
\* false.
C2_NotFoundWhenStopped ==
    [][(lastOp'.op = "run_server" /\ main.pc = "idle" /\ ~server_running)
         => \A f \in Callers, j \in JarChoices, d \in DirChoices :
              (run_server_body(f, j, d) /\ ~(Resolved(j, d) \in ExistingPaths))
              => /\ lastOp'.report = "NotFound"
                 /\ NothingSpawned
                 /\ server_running' = FALSE]_vars

\* C2 witness: run_server has reported NotFound and the supervisor is Stopped.
C2_Witness ==
    /\ lastOp = Op("run_server", "NotFound", NoWrite)
    /\ ~server_running
    /\ main.pc = "idle"

\* C3: once a run whose spawn failed has finished (its task and the
\* run_server call that started it), server_running is false, so a later
\* run_server is not rejected as already running.
C3_StoppedAfterSpawnFailure ==
    \A r \in Runs :
        (server_thread = r /\ tpc[r] = "done" /\ proc[r] = "none"
             /\ main.pc # "run_started")
        => ~server_running

\* C4: when stop_server's wait for the child ran out (the child did not exit
\* within the grace period) the supervisor eventually reaches Stopped.
C4_StopReachesStopped ==
    (lastOp.op = "stop_server" /\ lastOp.report = "Timeout") ~> ~server_running

\* C5: the process started by restart_server's start step is never alive
\* together with the child of an earlier run, i.e. it is spawned only after
\* the prior process has exited.
C5_RestartSpawnsAfterExit ==
    \A q, r \in Runs :
        (q < r /\ origin[r] = "restart" /\ Alive(r)) => ~Alive(q)

\* C6: stop_server called while server_running is false reports NotRunning,
\* writes to no input stream, terminates nothing and leaves server_running
\* and server_process unchanged.
C6_StopWhenStopped ==
    [][(~server_running /\ stop_server)
         => /\ lastOp' = Op("stop_server", "NotRunning", NoWrite)
            /\ proc' = proc
            /\ server_running' = server_running
            /\ server_process' = server_process
            /\ main' = main]_vars

\* C6 witness: stop_server has reported NotRunning on a Stopped supervisor
\* that still holds the handle of an earlier child.
C6_Witness ==
    /\ lastOp = Op("stop_server", "NotRunning", NoWrite)
    /\ ~server_running
    /\ server_process # None

\* c is t without its leading and trailing whitespace.
IsStripped(c, t) ==
    \E i \in 0..Len(t) :
        LET k == Len(t) - i - Len(c)
        IN  /\ k >= 0
            /\ c = SubSeq(t, i + 1, i + Len(c))
            /\ \A n \in 1..i : t[n] \in {" ", "\n"}
            /\ \A n \in (Len(t) - k + 1)..Len(t) : t[n] \in {" ", "\n"}
            /\ c # <<>> => (c[1] # " " /\ c[1] # "\n"
                               /\ c[Len(c)] # " " /\ c[Len(c)] # "\n")

Running == server_running /\ server_process # None

\* C7 (as stated): for every text given to send_command while Running, the
\* bytes it writes to the child's input are exactly that text followed by
\* one newline.
C7_SendWritesTextVerbatim ==
    [][(lastOp'.op = "send_command" /\ lastOp'.written # NoWrite /\ Running)
         => \A text \in Texts :
              send_command(text)
              => lastOp'.written = <<server_process, text \o <<"\n">>>>]_vars

\* C7 (amended): for every text given to send_command while Running, what is
\* written to the child's input is the text without its leading and trailing
\* whitespace followed by exactly one newline; nothing is written when that
\* is empty or when the write fails because the child has exited.
C7_SendWritesStrippedLine ==
    (Running /\ main.pc = "idle")
    => \A text \in Texts :
         LET w == send_result(text).written
         IN  IF w = NoWrite
             THEN IsStripped(<<>>, text) \/ ~Alive(server_process)
             ELSE /\ Alive(server_process)
                  /\ w[1] = server_process
                  /\ Len(w[2]) >= 2
                  /\ w[2][Len(w[2])] = "\n"
                  /\ IsStripped(SubSeq(w[2], 1, Len(w[2]) - 1), text)

\* C7 witness: send_command has written a line with inner whitespace to the
\* running child.
C7_Witness ==
    /\ lastOp.op = "send_command"
    /\ server_running
    /\ server_process # None
    /\ lastOp.written = <<server_process, <<"a", " ", "a", "\n">>>>

\* An entry satisfies the selection conditions of the claims: its game
\* versions contain the requested version (or none is requested) and its
\* loaders contain the server type (or it names no loaders, or no type is
\* configured).
FullMatch(v, sv, st) ==
    /\ (sv = "" \/ sv \in v.game_versions)
    /\ (st = "" \/ st \in v.loaders \/ v.loaders = {})

FullMatches ==
    { i \in 1..Len(inst.versions) :
        FullMatch(inst.versions[i], inst.server_version, inst.server_type) }

\* C8: for every non-empty version list, the entry selected is the first, in
\* catalog order, that satisfies both the game-version and the loader
\* condition.
C8_SelectsFirstFullMatch ==
    (inst.best # 0 /\ FullMatches # {})
    => (inst.best \in FullMatches /\ \A i \in FullMatches : inst.best <= i)

\* C9: when no entry of a non-empty list satisfies the selection conditions
\* the entry at index 0 (here 1) is selected, reported as non-exact and not
\* as an error; the result is reported exact iff the selected entry
\* satisfies the conditions.
C9_FallbackIsNonExact ==
    inst.best # 0
    => /\ FullMatches = {}
            => (inst.best = 1 /\ ~inst.exact
                   /\ inst.report # "NoVersionsAvailable")
       /\ inst.exact <=> inst.best \in FullMatches

VersionRequests == SelectSeq(inst.requests, LAMBDA q : q.kind = "versions")
Downloads == SelectSeq(inst.requests, LAMBDA q : q.kind = "download")

\* C10: the first request is the version list filtered by the game version
\* when one is supplied; a second, unfiltered one is issued iff the first
\* returned no entries and a game version was supplied; NoVersionsAvailable
\* is reported, with nothing selected or downloaded, exactly when the last
\* request issued returned no entries.
C10_FetchThenRefetch ==
    /\ inst.requests # <<>>
         => inst.requests[1] = VersionRequests[1]
            /\ VersionRequests[1].param = inst.server_version
    /\ inst.pc \in {"resolve", "download", "done"}
         => /\ Len(VersionRequests) \in {1, 2}
            /\ Len(VersionRequests) = 2
                 <=> (VersionRequests[1].ok /\ VersionRequests[1].count = 0
                        /\ inst.server_version # "")
            /\ Len(VersionRequests) = 2 => VersionRequests[2].param = ""
    /\ inst.pc \in {"download", "done"}
         => LET last == VersionRequests[Len(VersionRequests)]
            IN  /\ inst.report = "NoVersionsAvailable"
                     <=> (last.ok /\ last.count = 0)
                /\ inst.report = "NoVersionsAvailable"
                     => (inst.best = 0 /\ Downloads = <<>>)

\* C10 witness: both requests were issued, the second returned nothing, and
\* NoVersionsAvailable was reported.
C10_Witness ==
    /\ inst.pc = "done"
    /\ Len(VersionRequests) = 2
    /\ VersionRequests[1].param = "1.21.4"
    /\ inst.report = "NoVersionsAvailable"

\* A query with nothing in it but whitespace.
Blank(text) == \A n \in 1..Len(text) : text[n] \in {" ", "\n"}

\* C11: search_plugins with an empty query reports EmptyQuery, starts no
\* thread, issues no request and leaves the tree rows and plugins_data as
\* they were.
C11_EmptyQueryDoesNothing ==
    [][\A text \in QueryTexts :
         (Blank(text) /\ search_plugins(text))
         => /\ searchOp'.report = "EmptyQuery"
            /\ search' = search
            /\ nextSearch' = nextSearch
            /\ plugins_tree' = plugins_tree
            /\ plugins_data' = plugins_data
            /\ afterQueue' = afterQueue]_vars

\* C11 witness: EmptyQuery was reported while the results of an earlier
\* search are shown.
C11_Witness ==
    /\ searchOp.report = "EmptyQuery"
    /\ plugins_tree # <<>>
    /\ DOMAIN plugins_data # {}

\* C12: for every hit stored by a search and the game version the search
\* asked for, the stored compatible flag is true exactly when the requested
\* version is empty, or is among the hit's game versions, or the hit declares
\* no game versions.
C12_CompatibleFlag ==
    [][\A k \in Searches :
         search_store(k)
         => LET hit == search[k].hits[search[k].i]
                sv  == search[k].server_version
                gv  == hit.game_versions
            IN  plugins_data'[hit.project_id].compatible
                  = (IF sv = "" THEN TRUE
                     ELSE IF gv = {} THEN TRUE
                     ELSE sv \in gv)]_vars

\* C12 witness: one search stored a hit declaring only another version as
\* incompatible and a hit declaring no versions as compatible.
C12_Witness ==
    \E p, q \in DOMAIN plugins_data :
        /\ plugins_data[p].game_versions = {"1.20.1"}
        /\ ~plugins_data[p].compatible
        /\ plugins_data[q].game_versions = {}
        /\ plugins_data[q].compatible

SearchesFinished ==
    /\ \A k \in Searches : search[k].pc \in {"none", "done"}
    /\ \A n \in 1..Len(afterQueue) : afterQueue[n][1] # "insert"

ReturnedIds == { returned[n].project_id : n \in 1..Len(returned) }

\* C13: once a later search has been issued and every search thread and row
\* insert has finished, plugins_data and the tree hold only hits returned for
\* the latest search.
C13_OnlyLatestResults ==
    (nextSearch > 2 /\ SearchesFinished)
    => /\ DOMAIN plugins_data \subseteq ReturnedIds
       /\ \A n \in 1..Len(plugins_tree) : plugins_tree[n] \in ReturnedIds

Entries_of(folder) == IF folder.exists THEN DOMAIN folder.files ELSE {}

\* C14: with an empty file list the install step reports NoDownloadableFile,
\* requests no download and leaves the folder as it was; with a non-empty one
\* it requests the first file's URL and writes the body under the first
\* file's name, replacing a file of that name and nothing else.
C14_DownloadFirstFile ==
    [][/\ (install_resolve /\ inst'.best # 0
             /\ inst.versions[inst'.best].files = <<>>)
          => /\ inst'.report = "NoDownloadableFile"
             /\ inst'.pc = "done"
             /\ inst'.requests = inst.requests
             /\ plugins_folder' = plugins_folder
       /\ install_download
          => LET files == inst.versions[inst.best].files
                 req   == inst'.requests[Len(inst'.requests)]
             IN  /\ files # <<>>
                 /\ Len(inst'.requests) = Len(inst.requests) + 1
                 /\ req.kind = "download"
                 /\ req.param = files[1].url
                 /\ req.ok
                    => /\ Entries_of(plugins_folder')
                         = Entries_of(plugins_folder) \cup {files[1].filename}
                       /\ \A n \in Entries_of(plugins_folder') :
                            plugins_folder'.files[n] =
                              IF n = files[1].filename THEN "new"
                              ELSE plugins_folder.files[n]]_vars

\* C14 witness: an install has replaced the g.jar that was in the folder.
C14_Witness ==
    /\ inst.report = "Installed"
    /\ inst.pc = "done"
    /\ Len(inst.versions[inst.best].files) = 2
    /\ plugins_folder.files[[stem |-> "g", suffix |-> ".jar"]] = "new"

\* C15: a confirmed delete of a listed name that is in the folder removes
\* that entry and no other; when the entry is absent the failure is reported
\* as not found and the folder's entries are unchanged.
C15_DeleteExactlyNamed ==
    [][\A i \in 1..Len(installed_plugins_listbox) :
         (delete_plugin(i, TRUE) /\ installed_plugins_listbox[i] # Placeholder)
         => LET name == installed_plugins_listbox[i]
            IN  IF name \in Entries_of(plugins_folder)
                THEN /\ Entries_of(plugins_folder')
                          = Entries_of(plugins_folder) \ {name}
                     /\ \A n \in Entries_of(plugins_folder') :
                          plugins_folder'.files[n] = plugins_folder.files[n]
                ELSE /\ dirOp'.report = "FileNotFoundError"
                     /\ Entries_of(plugins_folder')
                          = Entries_of(plugins_folder)]_vars

\* C15 witness: a delete has removed one plugin and another entry is left.
C15_Witness ==
    /\ dirOp = [op |-> "delete_plugin", report |-> "Deleted"]
    /\ Cardinality(Entries_of(plugins_folder)) = 2

\* What the listbox lists: its rows, none when it shows the placeholder.
Listing(rows) == IF rows = << Placeholder >> THEN <<>> ELSE rows

\* C16: listing returns exactly the folder's entries with the .jar suffix,
\* each once, in ascending name order; an absent folder is created and gives
\* an empty listing; listing adds and removes no entry.
C16_ListingSortedJars ==
    [][refresh_installed_plugins
         => LET listing == Listing(installed_plugins_listbox')
            IN  /\ { listing[n] : n \in 1..Len(listing) }
                     = { e \in Entries_of(plugins_folder) : e.suffix = ".jar" }
                /\ \A m, n \in 1..Len(listing) :
                     m < n => Rank(listing[m]) < Rank(listing[n])
                /\ plugins_folder'.exists
                /\ ~plugins_folder.exists => listing = <<>>
                /\ Entries_of(plugins_folder') = Entries_of(plugins_folder)]_vars

\* C16 witness: two plugins are listed in order from a folder that also holds
\* a file that is not a plugin.
C16_Witness ==
    /\ dirOp.op = "refresh_installed_plugins"
    /\ Len(installed_plugins_listbox) = 2
    /\ Cardinality(Entries_of(plugins_folder)) = 3

\* C17: an exception raised by the forced termination in stop_server is
\* caught and reported inside stop_server; it never leaves stop_server.
C17_TerminateErrorCaught ==
    ~(lastOp.op = "stop_server" /\ lastOp.report = "Uncaught")

QueuedLines(r) ==
    LET q == SelectSeq(afterQueue, LAMBDA e : e[1] = "line" /\ e[2] = r)
    IN  [n \in 1..Len(q) |-> q[n][3]]

ConsoleLines(r) ==
    LET c == SelectSeq(console, LAMBDA e : e[1] = r)
    IN  [n \in 1..Len(c) |-> c[n][2]]

Forwarded(r) == ConsoleLines(r) \o QueuedLines(r)

UpTo(n) == [i \in 1..n |-> i]

StoppedQueued(r) ==
    \E n \in 1..Len(afterQueue) :
        afterQueue[n][1] = "status_stopped" /\ afterQueue[n][2] = r

\* C18: for every run the lines forwarded are the child's lines, each once
\* and in the order written; the reader finishes (state Stopped, stopped
\* notification queued) only after end-of-stream, with every line forwarded;
\* and the main loop gets the run's stopped notification after all its lines.
C18_RelayThenStopped ==
    \A r \in Runs :
        /\ \E n \in 0..emitted[r] : Forwarded(r) = UpTo(n)
        /\ (tpc[r] = "done" /\ proc[r] # "none")
           => /\ proc[r] = "exited"
              /\ stdout[r] = <<>>
              /\ Forwarded(r) = UpTo(emitted[r])
        /\ \A m, n \in 1..Len(afterQueue) :
             (afterQueue[m][1] = "status_stopped" /\ afterQueue[m][2] = r
                /\ afterQueue[n][1] = "line" /\ afterQueue[n][2] = r)
             => n < m
        /\ (tpc[r] = "done" /\ ~StoppedQueued(r)) => QueuedLines(r) = <<>>

\* C19: the main thread is never in a blocking wait while a callback is
\* waiting for the main loop.
C19_MainNeverBlocks ==
    ~(main.pc = "stop_wait" /\ afterQueue # <<>>)

\* C20: whenever send_command or stop_server passes its running check and
\* writes a line, the process written to is the one of the most recent
\* accepted run_server.
C20_WritesToLatestRun ==
    [][(/\ lastOp' # lastOp
        /\ \/ lastOp'.op = "send_command" /\ lastOp'.report = "ok"
           \/ lastOp'.op = "stop_server" /\ lastOp'.report = "waiting")
         => lastOp'.written[1] = server_thread]_vars

\* C21: whenever install_plugin is handled, the selected row of the results
\* tree has its entry in plugins_data, so the install never reports that the
\* plugin data was not found, however searches, their threads and the queued
\* row inserts interleave.
C21_InstallFindsData ==
    ~(searchOp.op = "install_plugin" /\ searchOp.report = "PluginDataNotFound")
====
